---- MODULE Spec2Model ----
(***************************************************************************)
(* Model of the title-resolution engine of nona                            *)
(* (src/fetchers/paper_fetcher.py): title normalisation and similarity,    *)
(* best-match selection, the two backend adapters, the cascade of          *)
(* fetch_paper_info and the batch driver; of the DBLP collector            *)
(* (src/collectors/dblp.py) and of the title deduplication script          *)
(* (src/scripts/deduplicate_titles.py).                                    *)
(*                                                                         *)
(* Text is a sequence of one-character strings, a URL is a sequence of     *)
(* lexical tokens, Python's None is the one-element sequence NoneV, and a  *)
(* float score 2.0*M/T is the pair <<2*M, T>> compared by                  *)
(* cross-multiplication (the division is correctly rounded, so the order   *)
(* and the equalities of the floats are those of the fractions).          *)
(* A parsed XML or JSON value has the type the backend's schema gives it:  *)
(* a title or display_name is text or null.                                *)
(***************************************************************************)
EXTENDS Integers, Sequences, FiniteSets, TLC

VARIABLES
    title,            \* fetch_paper_info: parameter title
    url,              \* fetch_paper_info: parameter url
    pc,               \* position of the call
    log,              \* requests issued so far, in order
    replies,          \* the backends' answers to them, in the same order
    arxiv_results,    \* outcome of _search_arxiv
    best_from_arxiv,  \* _combined_search: index of the arXiv best match, 0 = None
    openalex_results, \* outcome of _search_openalex
    best_from_openalex,
    scored,           \* number of _title_similarity calls made by the call
    result,           \* how the call ended
    sim,              \* _title_similarity under test: arguments and value
    pick,             \* _pick_best_match under test: arguments and value
    batch,            \* batch_fetch_papers: papers, loop position, results
    conv,             \* _search_openalex under test: one work object and its candidate
    dblp,             \* fetch_dblp_papers: offset, papers, pages read, return value
    db                \* deduplicate_titles: the papers table and the position of the run

vars == <<title, url, pc, log, replies, arxiv_results, best_from_arxiv,
          openalex_results, best_from_openalex, scored, result, sim, pick,
          batch, conv, dblp, db>>

laterVars == <<batch, conv, dblp, db>>

callVars == <<title, url, pc, log, replies, arxiv_results, best_from_arxiv,
              openalex_results, best_from_openalex, scored, result>>

-----------------------------------------------------------------------------
(* Bounds *)

MaxTitleLen == 3
MaxCands == 3
MaxEntries == 2
MaxWorks == 2

-----------------------------------------------------------------------------
(* Values *)

NoneV == <<"<None>">>

Falsy(v) == v = NoneV \/ v = <<>>

Truthy(v) == ~Falsy(v)

TitleChars == {"a", "b", "A", " "}

RECURSIVE StrsOfLen(_)
StrsOfLen(n) ==
    IF n = 0 THEN {<<>>}
    ELSE {Append(s, ch) : s \in StrsOfLen(n - 1), ch \in TitleChars}

Strs == UNION {StrsOfLen(n) : n \in 0..MaxTitleLen}

-----------------------------------------------------------------------------
(* _normalize_title *)

Lower(ch) ==
    CASE ch = "A" -> "a"
      [] ch = "B" -> "b"
      [] OTHER -> ch

LowerAll(text) == [i \in 1..Len(text) |-> Lower(text[i])]

IsSpace(ch) == ch \in {" ", "\t"}

\* str.split(): the maximal runs of non-whitespace characters, in order
RECURSIVE SplitWs(_, _, _)
SplitWs(s, w, ws) ==
    IF s = <<>> THEN (IF w = <<>> THEN ws ELSE Append(ws, w))
    ELSE IF IsSpace(Head(s))
         THEN SplitWs(Tail(s), <<>>, IF w = <<>> THEN ws ELSE Append(ws, w))
         ELSE SplitWs(Tail(s), Append(w, Head(s)), ws)

\* " ".join(words)
RECURSIVE JoinSp(_)
JoinSp(ws) ==
    IF ws = <<>> THEN <<>>
    ELSE IF Len(ws) = 1 THEN ws[1]
    ELSE ws[1] \o <<" ">> \o JoinSp(Tail(ws))

NormalizeTitle(text) ==
    IF Falsy(text) THEN <<>>
    ELSE JoinSp(SplitWs(LowerAll(text), <<>>, <<>>))

-----------------------------------------------------------------------------
(* difflib.SequenceMatcher(None, a, b).ratio(), no junk; autojunk only     *)
(* acts on sequences of 200 elements or more                               *)

\* length of the longest common run that starts at a[i] and b[j]
RECURSIVE Extent(_, _, _, _, _, _)
Extent(a, b, i, ahi, j, bhi) ==
    IF i <= ahi /\ j <= bhi /\ a[i] = b[j]
    THEN 1 + Extent(a, b, i + 1, ahi, j + 1, bhi)
    ELSE 0

SetMax(S) == CHOOSE x \in S : \A y \in S : x >= y

SetMin(S) == CHOOSE x \in S : \A y \in S : x <= y

\* find_longest_match: <<i, j, k>>, the longest block; of those the earliest
\* in a; of those the earliest in b
FindLongestMatch(a, b, alo, ahi, blo, bhi) ==
    LET k == SetMax({Extent(a, b, i, ahi, j, bhi) : i \in alo..ahi, j \in blo..bhi})
    IN  IF k = 0 THEN <<alo, blo, 0>>
        ELSE LET i == SetMin({x \in alo..ahi :
                                \E y \in blo..bhi : Extent(a, b, x, ahi, y, bhi) = k})
                 j == SetMin({y \in blo..bhi : Extent(a, b, i, ahi, y, bhi) = k})
             IN  <<i, j, k>>

\* get_matching_blocks: total size of the blocks, the longest first and then
\* the pieces to its left and to its right
RECURSIVE MatchCount(_, _, _, _, _, _)
MatchCount(a, b, alo, ahi, blo, bhi) ==
    IF alo > ahi \/ blo > bhi THEN 0
    ELSE LET m == FindLongestMatch(a, b, alo, ahi, blo, bhi)
         IN  IF m[3] = 0 THEN 0
             ELSE m[3]
                  + MatchCount(a, b, alo, m[1] - 1, blo, m[2] - 1)
                  + MatchCount(a, b, m[1] + m[3], ahi, m[2] + m[3], bhi)

Zero == <<0, 1>>

One == <<1, 1>>

HalfRatio(a, b) == <<MatchCount(a, b, 1, Len(a), 1, Len(b)), Len(a) + Len(b)>>

Ratio(a, b) ==
    IF Len(a) + Len(b) = 0 THEN One
    ELSE <<2 * MatchCount(a, b, 1, Len(a), 1, Len(b)), Len(a) + Len(b)>>

ScoreLess(x, y) == x[1] * y[2] < y[1] * x[2]

ScoreEq(x, y) == x[1] * y[2] = y[1] * x[2]

-----------------------------------------------------------------------------
(* _title_similarity *)

TitleSimilarity(query_title, candidate_title) ==
    LET q == NormalizeTitle(query_title)
        c == NormalizeTitle(candidate_title)
    IN  IF Falsy(q) \/ Falsy(c) THEN Zero ELSE Ratio(q, c)

-----------------------------------------------------------------------------
(* The call of fetch_paper_info is idle in the specifications of the pure   *)
(* functions                                                               *)

NoRec == [title |-> NoneV, arxiv_id |-> NoneV, pdf_url |-> NoneV]

NotCalled == [kind |-> "not_called", exc |-> "none", cands |-> <<>>, status |-> 0]

Pending == [kind |-> "pending", exc |-> "none", value |-> NoRec, status |-> 0, via |-> "none"]

CallIdle ==
    /\ title = <<>>
    /\ url = <<>>
    /\ pc = "idle"
    /\ log = <<>>
    /\ replies = <<>>
    /\ arxiv_results = NotCalled
    /\ best_from_arxiv = 0
    /\ openalex_results = NotCalled
    /\ best_from_openalex = 0
    /\ scored = 0
    /\ result = Pending

Parked == [state |-> "idle"]

LaterIdle == batch = Parked /\ conv = Parked /\ dblp = Parked /\ db = Parked

NoSim == [state |-> "idle", q |-> <<>>, c |-> <<>>, value |-> Zero]

NoPick == [state |-> "idle", query |-> <<>>, cands |-> <<>>, min |-> Zero, best |-> 0]

-----------------------------------------------------------------------------
(* Specification of _title_similarity on every pair of texts               *)

SimInit ==
    /\ CallIdle
    /\ LaterIdle
    /\ pick = NoPick
    /\ \E q \in Strs \cup {NoneV}, c \in Strs \cup {NoneV} :
          sim = [state |-> "args", q |-> q, c |-> c, value |-> Zero]

SimCall ==
    /\ sim.state = "args"
    /\ sim' = [sim EXCEPT !.state = "done", !.value = TitleSimilarity(sim.q, sim.c)]
    /\ UNCHANGED <<callVars, pick, laterVars>>

SimNext == SimCall

SpecSim == SimInit /\ [][SimNext]_vars

\* similarity(x, x) for the texts x that have a character other than whitespace
HasWord(x) == x # NoneV /\ \E i \in 1..Len(x) : ~IsSpace(x[i])

\* C10 as stated: for every non-empty string x, whitespace-only ones
\* included, _title_similarity(x, x) is 1.0
C10_ReflexiveNonEmpty ==
    (sim.state = "done" /\ sim.q = sim.c /\ sim.q # NoneV /\ sim.q # <<>>)
        => ScoreEq(sim.value, One)

\* C10 amended: for every string x that has at least one non-whitespace
\* character, _title_similarity(x, x) is 1.0
C10_ReflexiveWithWord ==
    (sim.state = "done" /\ sim.q = sim.c /\ HasWord(sim.q))
        => ScoreEq(sim.value, One)

C10_Witness ==
    /\ sim.state = "done"
    /\ sim.q = <<"A", " ", "b">>
    /\ sim.c = sim.q
    /\ ScoreEq(sim.value, One)

-----------------------------------------------------------------------------
(* _pick_best_match: the index of the chosen candidate, 0 for None          *)

\* cand.get("title", "") or ""
CandTitle(cand) == IF Falsy(cand.title) THEN <<>> ELSE cand.title

CandScore(query_title, cand) == TitleSimilarity(query_title, CandTitle(cand))

\* the loop of lines 157-162: st = <<best, best_score>> after the first i - 1
\* candidates
RECURSIVE ScanLastWins(_, _, _, _)
ScanLastWins(query_title, candidates, i, st) ==
    IF i > Len(candidates) THEN st
    ELSE LET score == CandScore(query_title, candidates[i])
         IN  ScanLastWins(query_title, candidates, i + 1,
                  IF ~ScoreLess(score, st[2]) THEN <<i, score>> ELSE st)

RECURSIVE ScanCandidates(_, _, _, _)
ScanCandidates(query_title, candidates, i, st) ==
    IF i > Len(candidates) THEN st
    ELSE LET score == CandScore(query_title, candidates[i])
         IN  ScanCandidates(query_title, candidates, i + 1,
                  IF ScoreLess(st[2], score) THEN <<i, score>> ELSE st)

BelowThresholdOrEqual(best_score, min_similarity) ==
    ~ScoreLess(min_similarity, best_score)

\* line 175: best_score < min_similarity
BelowThreshold(best_score, min_similarity) == ScoreLess(best_score, min_similarity)

PickBestMatch(query_title, candidates, min_similarity) ==
    IF candidates = <<>> THEN 0
    ELSE LET st == ScanCandidates(query_title, candidates, 1, <<0, Zero>>)
         IN  IF st[1] = 0 THEN 0
             ELSE IF BelowThreshold(st[2], min_similarity) THEN 0
             ELSE st[1]

LooseMinSimilarity == <<1, 2>>

\* min_similarity: float = 0.8
DefaultMinSimilarity == <<4, 5>>

-----------------------------------------------------------------------------
(* Specification of _pick_best_match on lists of candidates                *)

PickQueries == {<<"A", "b">>, <<" ">>}

PickTitles == {<<"a", "b">>, <<"a", "b", "b">>, <<"a", "b", "a">>, <<"b">>, NoneV}

SomePdfUrl == <<"https://", "doi.org/", "1", ".pdf">>

PickCands ==
    {[title |-> t, arxiv_id |-> NoneV, pdf_url |-> p] :
        t \in PickTitles, p \in {NoneV, SomePdfUrl}}

RECURSIVE ListsOfLen(_, _)
ListsOfLen(S, n) ==
    IF n = 0 THEN {<<>>}
    ELSE {Append(l, x) : l \in ListsOfLen(S, n - 1), x \in S}

ListsUpTo(S, n) == UNION {ListsOfLen(S, k) : k \in 0..n}

MinSims == {Zero, <<1, 2>>, DefaultMinSimilarity, One}

PickInit ==
    /\ CallIdle
    /\ LaterIdle
    /\ sim = NoSim
    /\ \E q \in PickQueries, cs \in ListsUpTo(PickCands, MaxCands), m \in MinSims :
          pick = [state |-> "args", query |-> q, cands |-> cs, min |-> m, best |-> 0]

PickCall ==
    /\ pick.state = "args"
    /\ pick' = [pick EXCEPT !.state = "done",
                            !.best = PickBestMatch(pick.query, pick.cands, pick.min)]
    /\ UNCHANGED <<callVars, sim, laterVars>>

PickNext == PickCall

SpecPick == PickInit /\ [][PickNext]_vars

PickScore(j) == CandScore(pick.query, pick.cands[j])

PickIdx == 1..Len(pick.cands)

\* C8: a returned candidate has the greatest similarity of the whole list,
\* and no candidate before it in the list has the same similarity
C8_MaxFirstSeen ==
    (pick.state = "done" /\ pick.best # 0) =>
        /\ pick.best \in PickIdx
        /\ \A j \in PickIdx : ~ScoreLess(PickScore(pick.best), PickScore(j))
        /\ \A j \in PickIdx :
              ScoreEq(PickScore(j), PickScore(pick.best)) => pick.best <= j

C8_Witness ==
    /\ pick.state = "done"
    /\ pick.best = 1
    /\ Len(pick.cands) >= 2
    /\ pick.cands[2] # pick.cands[1]
    /\ ScoreEq(PickScore(2), PickScore(1))

PickMaxScore ==
    IF pick.cands = <<>> THEN Zero
    ELSE LET j == CHOOSE j \in PickIdx :
                     \A k \in PickIdx : ~ScoreLess(PickScore(j), PickScore(k))
         IN  PickScore(j)

-----------------------------------------------------------------------------
(* URLs: sequences of tokens. A digit token is one digit; the tokens that   *)
(* end in "/" are the path separators of the text.                         *)

Digits == {"1", "2"}

SlashTokens == {"https://", "arxiv.org/", "abs/", "pdf/", "doi.org/"}

IsDigit(tok) == tok \in Digits

\* length of the run of digits of u that starts at position i
RECURSIVE DigitRun(_, _)
DigitRun(u, i) ==
    IF i >= 1 /\ i <= Len(u) /\ IsDigit(u[i]) THEN 1 + DigitRun(u, i + 1) ELSE 0

\* (\d+\.\d+) matched at position i: the group, or NoneV
MatchIdAt(u, i) ==
    LET n1 == DigitRun(u, i)
    IN  IF n1 = 0 \/ i + n1 > Len(u) THEN NoneV
        ELSE IF u[i + n1] # "." THEN NoneV
        ELSE LET n2 == DigitRun(u, i + n1 + 1)
             IN  IF n2 = 0 THEN NoneV ELSE SubSeq(u, i, i + n1 + n2)

\* re.search(r'arxiv\.org/<dir>(\d+\.\d+)', u): group 1 of the leftmost match
SearchDirId(u, dir) ==
    LET hits == {i \in 1..Len(u) :
                    /\ i + 2 <= Len(u)
                    /\ u[i] = "arxiv.org/"
                    /\ u[i + 1] = dir
                    /\ MatchIdAt(u, i + 2) # NoneV}
    IN  IF hits = {} THEN NoneV
        ELSE MatchIdAt(u, (CHOOSE i \in hits : \A k \in hits : i <= k) + 2)

\* f"https://arxiv.org/pdf/{arxiv_id}.pdf"
ArxivPdfUrl(arxiv_id) == <<"https://", "arxiv.org/", "pdf/">> \o arxiv_id \o <<".pdf">>

-----------------------------------------------------------------------------
(* _extract_from_url: the record, or NoRec with found = FALSE for None      *)

UrlIdAbsOnly(u) == SearchDirId(u, "abs/")

\* lines 404-413: the abs pattern, then the pdf pattern
UrlId(u) ==
    IF SearchDirId(u, "abs/") # NoneV THEN SearchDirId(u, "abs/")
    ELSE SearchDirId(u, "pdf/")

ExtractFromUrl(t, u) ==
    LET arxiv_id == UrlId(u)
    IN  IF Truthy(arxiv_id)
        THEN [found |-> TRUE,
              rec |-> [title |-> t, arxiv_id |-> arxiv_id,
                       pdf_url |-> ArxivPdfUrl(arxiv_id)]]
        ELSE [found |-> FALSE, rec |-> NoRec]

-----------------------------------------------------------------------------
(* Backend responses. kind "http": a response with a status arrived;        *)
(* "connerr", "timeout": requests.get raised. wellformed: the body parses   *)
(* as XML (arXiv) or JSON (OpenAlex).                                       *)

ThrottleStatuses == {429, 443, 503}

ErrorStatuses == {404, 429, 443, 503}

NoBody == <<>>

HttpError(st) == [kind |-> "http", status |-> st, wellformed |-> FALSE, body |-> NoBody]

ConnErr == [kind |-> "connerr", status |-> 0, wellformed |-> FALSE, body |-> NoBody]

TimedOut == [kind |-> "timeout", status |-> 0, wellformed |-> FALSE, body |-> NoBody]

Malformed == [kind |-> "http", status |-> 200, wellformed |-> FALSE, body |-> NoBody]

Ok(body) == [kind |-> "http", status |-> 200, wellformed |-> TRUE, body |-> body]

FailedReplies == {HttpError(st) : st \in ErrorStatuses} \cup {ConnErr, TimedOut, Malformed}

\* requests.Response.__bool__ is Response.ok: no 4xx or 5xx status
ResponseTruthy(resp) == resp.status < 400

\* Response.raise_for_status raises HTTPError on 4xx and 5xx
RaisesForStatus(resp) == resp.status >= 400 /\ resp.status < 600

NoExc == [type |-> "none", status |-> 0]

\* line 202: exc.response.status_code if exc.response else None (0 for None)
RequestStatus(resp) == IF ResponseTruthy(resp) THEN resp.status ELSE 0

\* _request, lines 196-205: the exception it raises, NoExc when it returns
Request(resp) ==
    IF resp.kind = "connerr" THEN [type |-> "ConnectionError", status |-> 0]
    ELSE IF resp.kind = "timeout" THEN [type |-> "Timeout", status |-> 0]
    ELSE IF RaisesForStatus(resp)
         THEN IF RequestStatus(resp) \in ThrottleStatuses
              THEN [type |-> "RateLimitError", status |-> RequestStatus(resp)]
              ELSE [type |-> "HTTPError", status |-> 0]
    ELSE NoExc

Raised(exc) == [kind |-> "raise", exc |-> exc.type, cands |-> <<>>, status |-> exc.status]

Listed(cands) == [kind |-> "list", exc |-> "none", cands |-> cands, status |-> 0]

SearchArxivPropagate(exc) == Raised(exc)

\* _search_arxiv, lines 238-242: what the adapter does with an exception
SearchArxivExcept(exc) ==
    IF exc.type = "RateLimitError" THEN Raised(exc) ELSE Listed(<<>>)

\* _search_openalex, lines 391-393
SearchOpenalexExcept(exc) == Listed(<<>>)

-----------------------------------------------------------------------------
(* _parse_arxiv_response. An entry of the feed: id_url is the text of its   *)
(* atom:id (NoneV: no such element), title the text of its atom:title       *)
(* (NoneV: no such element, EmptyElem: an element without text).           *)

EmptyElem == <<"<no text>">>

\* id_url.split('/')[-1]
LastSegment(u) ==
    LET slashes == {i \in 1..Len(u) : u[i] \in SlashTokens}
    IN  IF slashes = {} THEN u
        ELSE SubSeq(u, (CHOOSE i \in slashes : \A k \in slashes : i >= k) + 1, Len(u))

\* arxiv_id.split('v')[0] if 'v' in arxiv_id
StripVersion(a) ==
    LET vs == {i \in 1..Len(a) : a[i] = "v"}
    IN  IF vs = {} THEN a
        ELSE SubSeq(a, 1, (CHOOSE i \in vs : \A k \in vs : i <= k) - 1)

\* ' '.join(text.strip().split())
CollapseWs(text) == JoinSp(SplitWs(text, <<>>, <<>>))

\* lines 256-295: an entry that raises is logged and left out
EntryParses(entry) == entry.id_url # NoneV /\ entry.title # EmptyElem

ParseArxivEntry(entry) ==
    LET arxiv_id == StripVersion(LastSegment(entry.id_url))
    IN  [title |-> IF entry.title = NoneV THEN <<>> ELSE CollapseWs(entry.title),
         arxiv_id |-> arxiv_id,
         pdf_url |-> ArxivPdfUrl(arxiv_id)]

RECURSIVE ParseArxivEntries(_)
ParseArxivEntries(entries) ==
    IF entries = <<>> THEN <<>>
    ELSE IF EntryParses(Head(entries))
         THEN <<ParseArxivEntry(Head(entries))>> \o ParseArxivEntries(Tail(entries))
         ELSE ParseArxivEntries(Tail(entries))

\* lines 247-301: a body that is not XML gives []
ParseArxivResponse(resp) ==
    IF ~resp.wellformed THEN <<>> ELSE ParseArxivEntries(resp.body)

-----------------------------------------------------------------------------
(* _search_openalex, lines 326-386: one work object to one candidate.       *)
(* A location: source is the source's display_name as name tokens (NoneV:  *)
(* no source, NullName: a source whose display_name is null), pdf_url its  *)
(* pdf_url. ids_arxiv: ids.arxiv (NoneV: none). primary_pdf: the pdf_url   *)
(* of primary_location (NoneV: none).                                      *)

NullName == <<"<null>">>

NameLower(tok) == IF tok \in {"arXiv", "ArXiv"} THEN "arxiv" ELSE tok

\* 'arxiv' in name.lower()
NameHasArxiv(name) == \E i \in 1..Len(name) : NameLower(name[i]) = "arxiv"

\* re.search(r'arxiv\.org/(?:pdf/|abs/)?(\d+\.\d+)', u): group 1, or NoneV
IdAfterHost(u, i) ==
    IF i + 1 <= Len(u) /\ u[i + 1] \in {"pdf/", "abs/"}
    THEN MatchIdAt(u, i + 2)
    ELSE MatchIdAt(u, i + 1)

SearchHostId(u) ==
    LET hits == {i \in 1..Len(u) : u[i] = "arxiv.org/" /\ IdAfterHost(u, i) # NoneV}
    IN  IF hits = {} THEN NoneV
        ELSE IdAfterHost(u, CHOOSE i \in hits : \A k \in hits : i <= k)

\* lines 353-359 for one location: the id it gives, or NoneV
LocationId(loc) ==
    IF loc.source # NoneV /\ NameHasArxiv(loc.source)
       /\ Truthy(loc.pdf_url) /\ (\E i \in 1..Len(loc.pdf_url) : loc.pdf_url[i] = "arxiv.org/")
    THEN SearchHostId(loc.pdf_url)
    ELSE NoneV

\* lines 349-359: the id of the first location that gives one
RECURSIVE LocationsId(_)
LocationsId(locs) ==
    IF locs = <<>> THEN NoneV
    ELSE IF LocationId(Head(locs)) # NoneV THEN LocationId(Head(locs))
    ELSE LocationsId(Tail(locs))

\* a source whose display_name is null makes .lower() raise: the work is
\* logged and left out (lines 384-386); the loop stops at the first id
RECURSIVE LocationsRaise(_)
LocationsRaise(locs) ==
    IF locs = <<>> THEN FALSE
    ELSE IF Head(locs).source = NullName THEN TRUE
    ELSE IF LocationId(Head(locs)) # NoneV THEN FALSE
    ELSE LocationsRaise(Tail(locs))

\* lines 362-369
ExternalId(ids_arxiv) == IF Truthy(ids_arxiv) THEN SearchHostId(ids_arxiv) ELSE NoneV

WorkArxivIdIdsFirst(work) ==
    IF Truthy(ExternalId(work.ids_arxiv)) THEN ExternalId(work.ids_arxiv)
    ELSE LocationsId(work.locations)

\* lines 346-371
WorkArxivId(work) ==
    IF Truthy(LocationsId(work.locations)) THEN LocationsId(work.locations)
    ELSE ExternalId(work.ids_arxiv)

WorkPdfUrl(work) ==
    IF Truthy(WorkArxivId(work)) THEN ArxivPdfUrl(WorkArxivId(work))
    ELSE IF Truthy(work.primary_pdf) THEN work.primary_pdf
    ELSE NoneV

WorkCandidate(work) ==
    [title |-> work.display_name,
     arxiv_id |-> WorkArxivId(work),
     pdf_url |-> WorkPdfUrl(work)]

RECURSIVE ParseOpenalexWorks(_)
ParseOpenalexWorks(works) ==
    IF works = <<>> THEN <<>>
    ELSE IF LocationsRaise(Head(works).locations)
         THEN ParseOpenalexWorks(Tail(works))
         ELSE <<WorkCandidate(Head(works))>> \o ParseOpenalexWorks(Tail(works))

-----------------------------------------------------------------------------
(* Inputs of fetch_paper_info and answers of the two backends              *)

QueryTitles == {<<>>, <<"A", "b">>, <<" ">>}

AbsUrl == <<"https://", "arxiv.org/", "abs/", "1", "2", ".", "2">>

PdfUrl == <<"https://", "arxiv.org/", "pdf/", "2", ".", "1", "v", "1">>

BothUrl == <<"https://", "arxiv.org/", "pdf/", "2", ".", "1", "?",
             "arxiv.org/", "abs/", "1", ".", "2">>

TruncatedUrl == <<"https://", "arxiv.org/", "abs/", "1", ".">>

DoiUrl == <<"https://", "doi.org/", "1", ".", "2">>

Urls == {NoneV, AbsUrl, PdfUrl, BothUrl, TruncatedUrl, DoiUrl}

EntryIdUrl == <<"https://", "arxiv.org/", "abs/", "1", ".", "2", "v", "2">>

SampleEntries ==
    {[id_url |-> EntryIdUrl, title |-> <<"a", "b">>],
     [id_url |-> EntryIdUrl, title |-> <<"A", " ", " ", "b", "b">>],
     [id_url |-> AbsUrl, title |-> <<"b">>],
     [id_url |-> NoneV, title |-> <<"a", "b">>]}

ArxivResponses ==
    FailedReplies \cup {Ok(es) : es \in ListsUpTo(SampleEntries, MaxEntries)}

ArxivLocation == [source |-> <<"arXiv">>, pdf_url |-> PdfUrl]

SampleWorks ==
    {[display_name |-> <<"a", "b">>, locations |-> <<ArxivLocation>>,
      ids_arxiv |-> NoneV, primary_pdf |-> NoneV],
     [display_name |-> <<"a", "b", "a">>, locations |-> <<>>,
      ids_arxiv |-> NoneV, primary_pdf |-> SomePdfUrl],
     [display_name |-> <<"A", "b">>, locations |-> <<>>,
      ids_arxiv |-> NoneV, primary_pdf |-> NoneV],
     [display_name |-> <<"b">>, locations |-> <<>>,
      ids_arxiv |-> NoneV, primary_pdf |-> SomePdfUrl]}

OpenalexResponses ==
    FailedReplies \cup {Ok(ws) : ws \in ListsUpTo(SampleWorks, MaxWorks)}

-----------------------------------------------------------------------------
(* fetch_paper_info and _combined_search, one step per backend request      *)

Returned(rec, via) ==
    [kind |-> "return", exc |-> "none", value |-> rec, status |-> 0, via |-> via]

ReturnedNone(via) ==
    [kind |-> "none", exc |-> "none", value |-> NoRec, status |-> 0, via |-> via]

Propagated(out, via) ==
    [kind |-> "raise", exc |-> out.exc, value |-> NoRec, status |-> out.status, via |-> via]

\* [r for r in results if r]: the dicts that are not empty
NonEmptyDicts(results) == SelectSeq(results, LAMBDA r : DOMAIN r # {})

AcceptsAnyMatch(best, candidates) == best # 0

RejectsAll(best, candidates) == FALSE

\* lines 111 and 119: best and best.get("pdf_url")
Accepts(best, candidates) == best # 0 /\ Truthy(candidates[best].pdf_url)

\* line 111
AcceptsPrimary(best, candidates) == Accepts(best, candidates)

\* line 119
AcceptsSecondary(best, candidates) == Accepts(best, candidates)

Init ==
    /\ title \in QueryTitles
    /\ url \in Urls
    /\ pc = "start"
    /\ log = <<>>
    /\ replies = <<>>
    /\ arxiv_results = NotCalled
    /\ best_from_arxiv = 0
    /\ openalex_results = NotCalled
    /\ best_from_openalex = 0
    /\ scored = 0
    /\ result = Pending
    /\ sim = NoSim
    /\ pick = NoPick
    /\ LaterIdle

\* fetch_paper_info, lines 40-53, up to the first request of _search_arxiv
Start ==
    /\ pc = "start"
    /\ IF Falsy(title)
       THEN result' = ReturnedNone("title") /\ pc' = "done"
       ELSE IF Truthy(url) /\ ExtractFromUrl(title, url).found
                 /\ Truthy(ExtractFromUrl(title, url).rec.arxiv_id)
            THEN result' = Returned(ExtractFromUrl(title, url).rec, "url") /\ pc' = "done"
            ELSE result' = result /\ pc' = "arxiv_exact"
    /\ UNCHANGED <<title, url, log, replies, arxiv_results, best_from_arxiv,
                   openalex_results, best_from_openalex, scored, sim, pick,
                   laterVars>>

\* _combined_search, lines 106-112, once _search_arxiv has ended with out
AfterArxiv(out) ==
    /\ arxiv_results' = out
    /\ IF out.kind = "raise"
       THEN /\ best_from_arxiv' = 0
            /\ scored' = scored
            /\ result' = Propagated(out, "arxiv")
            /\ pc' = "done"
       ELSE \E cands \in {NonEmptyDicts(out.cands)} :
            \E best \in {PickBestMatch(title, cands, DefaultMinSimilarity)} :
                /\ best_from_arxiv' = best
                /\ scored' = scored + Len(cands)
                /\ IF AcceptsPrimary(best, cands)
                   THEN result' = Returned(cands[best], "arxiv") /\ pc' = "done"
                   ELSE result' = result /\ pc' = "openalex"

ExactAlwaysSuffices(results) == TRUE

\* line 221: if results: return results
ExactSuffices(results) == results # <<>>

\* _search_arxiv, lines 207-223: the exact-phrase request
ArxivExact ==
    /\ pc = "arxiv_exact"
    /\ \E resp \in ArxivResponses :
          /\ log' = Append(log, "arxiv_ti")
          /\ replies' = Append(replies, resp)
          /\ IF Request(resp) # NoExc
             THEN AfterArxiv(SearchArxivExcept(Request(resp)))
             ELSE \E results \in {ParseArxivResponse(resp)} :
                  IF ExactSuffices(results)
                  THEN AfterArxiv(Listed(results))
                  ELSE /\ pc' = "arxiv_keyword"
                       /\ UNCHANGED <<arxiv_results, best_from_arxiv, scored, result>>
    /\ UNCHANGED <<title, url, openalex_results, best_from_openalex, sim, pick, laterVars>>

\* _search_arxiv, lines 225-236: the keyword request
ArxivKeyword ==
    /\ pc = "arxiv_keyword"
    /\ \E resp \in ArxivResponses :
          /\ log' = Append(log, "arxiv_all")
          /\ replies' = Append(replies, resp)
          /\ IF Request(resp) # NoExc
             THEN AfterArxiv(SearchArxivExcept(Request(resp)))
             ELSE AfterArxiv(Listed(ParseArxivResponse(resp)))
    /\ UNCHANGED <<title, url, openalex_results, best_from_openalex, sim, pick, laterVars>>

\* _search_openalex, lines 311-393: requests.get, raise_for_status, json()
SearchOpenalex(resp) ==
    IF resp.kind = "connerr" THEN SearchOpenalexExcept([type |-> "ConnectionError", status |-> 0])
    ELSE IF resp.kind = "timeout" THEN SearchOpenalexExcept([type |-> "Timeout", status |-> 0])
    ELSE IF RaisesForStatus(resp) THEN SearchOpenalexExcept([type |-> "HTTPError", status |-> 0])
    ELSE IF ~resp.wellformed THEN SearchOpenalexExcept([type |-> "JSONDecodeError", status |-> 0])
    ELSE Listed(ParseOpenalexWorks(resp.body))

\* _combined_search, lines 115-123, and fetch_paper_info, lines 55-60
OpenalexQuery ==
    /\ pc = "openalex"
    /\ \E resp \in OpenalexResponses :
          \E out \in {SearchOpenalex(resp)} :
          \E cands \in {NonEmptyDicts(out.cands)} :
          \E best \in {PickBestMatch(title, cands, DefaultMinSimilarity)} :
              /\ log' = Append(log, "openalex")
              /\ replies' = Append(replies, resp)
              /\ openalex_results' = out
              /\ best_from_openalex' = best
              /\ scored' = scored + Len(cands)
              /\ result' = IF AcceptsSecondary(best, cands)
                           THEN Returned(cands[best], "openalex")
                           ELSE ReturnedNone("exhausted")
              /\ pc' = "done"
    /\ UNCHANGED <<title, url, arxiv_results, best_from_arxiv, sim, pick, laterVars>>

Next == Start \/ ArxivExact \/ ArxivKeyword \/ OpenalexQuery

Spec == Init /\ [][Next]_vars

-----------------------------------------------------------------------------
(* Properties of fetch_paper_info                                          *)

Done == pc = "done"

Threshold == <<4, 5>>

Confident(t1, t2) == ~ScoreLess(TitleSimilarity(t1, t2), Threshold)

\* digits "." digits
IsIdShape(x) ==
    \E d \in 2..(Len(x) - 1) :
        /\ x[d] = "."
        /\ \A k \in (1..Len(x)) \ {d} : IsDigit(x[k])

\* the identifiers that follow arxiv.org/abs/ or arxiv.org/pdf/ in u, each
\* taken up to the end of its digits
EmbeddedIds(u) ==
    {SubSeq(u, p[1], p[2]) :
        p \in {q \in (1..Len(u)) \X (1..Len(u)) :
                 /\ q[1] >= 3
                 /\ q[1] <= q[2]
                 /\ u[q[1] - 2] = "arxiv.org/"
                 /\ u[q[1] - 1] \in {"abs/", "pdf/"}
                 /\ IsIdShape(SubSeq(u, q[1], q[2]))
                 /\ (q[2] = Len(u) \/ ~IsDigit(u[q[2] + 1]))}}

Queried(backend) == \E i \in DOMAIN log : log[i] = backend

IsArxivRequest(i) == log[i] \in {"arxiv_ti", "arxiv_all"}

Throttled(r) == r.kind = "http" /\ r.status \in {429, 443, 503}

RequestFailed(r) ==
    \/ r.kind \in {"connerr", "timeout"}
    \/ r.kind = "http" /\ r.status >= 400 /\ ~Throttled(r)

BodyMalformed(r) == r.kind = "http" /\ r.status = 200 /\ ~r.wellformed

\* the first candidate of the greatest similarity to the query title
FirstBest(cands) ==
    LET sc == [j \in 1..Len(cands) |-> CandScore(title, cands[j])]
    IN  CHOOSE j \in 1..Len(cands) : \A k \in 1..Len(cands) :
            /\ ~ScoreLess(sc[j], sc[k])
            /\ ScoreEq(sc[j], sc[k]) => j <= k

\* the adapter's best match clears the threshold and has a pdf_url
HasMatch(out) ==
    /\ out.kind = "list"
    /\ out.cands # <<>>
    /\ LET best == out.cands[FirstBest(out.cands)]
       IN  /\ ~ScoreLess(CandScore(title, best), Threshold)
           /\ Truthy(best.pdf_url)

\* C1: a returned record has a title of similarity >= 0.8 to the query
\* title, or was built from an arXiv identifier of the url
C1_ConfidentOrFromUrl ==
    (Done /\ result.kind = "return") =>
        \/ Confident(title, result.value.title)
        \/ /\ Truthy(url)
           /\ result.value.arxiv_id \in EmbeddedIds(url)
           /\ result.value.pdf_url = ArxivPdfUrl(result.value.arxiv_id)
           /\ log = <<>>

C1_Witness ==
    /\ Done
    /\ result.kind = "return"
    /\ result.via = "openalex"
    /\ ScoreEq(TitleSimilarity(title, result.value.title), Threshold)

\* C2: when arXiv answers the exact-phrase or the keyword request with status
\* 429, 443 or 503, _search_arxiv raises RateLimitError with that status
C2_ThrottleRaisesRateLimit ==
    \A i \in DOMAIN log :
        (IsArxivRequest(i) /\ Throttled(replies[i])) =>
            /\ arxiv_results.kind = "raise"
            /\ arxiv_results.exc = "RateLimitError"
            /\ arxiv_results.status = replies[i].status

C5_UrlShortCircuitAnyTitle ==
    (Done /\ EmbeddedIds(url) # {}) =>
        /\ result.kind = "return"
        /\ result.value.arxiv_id \in EmbeddedIds(url)
        /\ scored = 0
        /\ log = <<>>

\* C5 amended: for every non-empty title, a url with an arXiv abs or pdf
\* identifier gives a record with that identifier, no similarity and no request
C5_UrlShortCircuit ==
    (Done /\ Truthy(title) /\ EmbeddedIds(url) # {}) =>
        /\ result.kind = "return"
        /\ result.value.arxiv_id \in EmbeddedIds(url)
        /\ scored = 0
        /\ log = <<>>

C5_Witness ==
    /\ Done
    /\ title = <<" ">>
    /\ url = PdfUrl
    /\ result.kind = "return"
    /\ result.value.arxiv_id = <<"2", ".", "1">>

\* C6: without the url short-circuit, a primary best match that clears 0.8
\* and has a pdf_url is returned and the secondary is never queried; the
\* secondary is queried only after the primary step ended without such a match
C6_PrimaryFirst ==
    /\ (Done /\ result.via # "url" /\ HasMatch(arxiv_results)) =>
          /\ result.kind = "return"
          /\ result.value = arxiv_results.cands[FirstBest(arxiv_results.cands)]
          /\ ~Queried("openalex")
    /\ Queried("openalex") =>
          /\ arxiv_results.kind = "list"
          /\ ~HasMatch(arxiv_results)
          /\ \A i \in DOMAIN log :
                log[i] = "openalex" =>
                    /\ i > 1
                    /\ log[1] = "arxiv_ti"
                    /\ \A j \in 1..(i - 1) : IsArxivRequest(j)

C6_Witness ==
    /\ Done
    /\ title = <<"A", "b">>
    /\ log = <<"arxiv_ti">>
    /\ Len(arxiv_results.cands) = 2
    /\ result.kind = "return"
    /\ result.value.title = <<"a", "b">>
    /\ result.value = arxiv_results.cands[2]

\* C7: when the primary step gave no accepted match, the call returns the
\* secondary's best match if it scores >= 0.8 and has a pdf_url and None
\* otherwise; every returned record has a pdf_url
C7_SecondaryOrNone ==
    /\ (Done /\ arxiv_results.kind = "list" /\ ~HasMatch(arxiv_results)) =>
          /\ Queried("openalex")
          /\ IF HasMatch(openalex_results)
             THEN /\ result.kind = "return"
                  /\ result.value =
                        openalex_results.cands[FirstBest(openalex_results.cands)]
             ELSE result.kind = "none"
    /\ (Done /\ result.kind = "return") => Truthy(result.value.pdf_url)

C7_Witness ==
    /\ Done
    /\ arxiv_results = Listed(<<>>)
    /\ Len(openalex_results.cands) = 2
    /\ result.kind = "return"
    /\ result.via = "openalex"
    /\ result.value = openalex_results.cands[2]

-----------------------------------------------------------------------------
(* batch_fetch_papers, lines 63-98.  One step of the model is one pass of    *)
(* the loop body.  What fetch_paper_info does for a paper is an input of the *)
(* driver: the record of the URL when the URL carries an identifier (no      *)
(* request is made then), otherwise a found record, None, or an exception.   *)
(* The exceptions are drawn over the function's interface; composed with the *)
(* typed responses of Spec, fetch_paper_info itself never raises.            *)

MaxPapers == 3

NoSource == "<absent>"

SampleRefs ==
    { [title |-> <<"a">>, url |-> NoneV,  source |-> "icml"],
      [title |-> <<"b">>, url |-> DoiUrl, source |-> NoSource],
      [title |-> <<"a">>, url |-> AbsUrl, source |-> "iclr"],
      [title |-> NoneV,   url |-> AbsUrl, source |-> "icml"],
      [title |-> <<>>,    url |-> NoneV,  source |-> "iclr"] }

ExceptionTypes == {"RateLimitError", "Exception"}

SearchedId == <<"2", ".", "1">>

\* fetch_paper_info(title, url), lines 28-60, as the driver sees it
FetchOutcomes(t, u) ==
    IF Truthy(u) /\ ExtractFromUrl(t, u).found
    THEN {Returned(ExtractFromUrl(t, u).rec, "url")}
    ELSE {Returned([title |-> t, arxiv_id |-> SearchedId,
                    pdf_url |-> ArxivPdfUrl(SearchedId)], "arxiv"),
          ReturnedNone("openalex")}
         \cup {[kind |-> "raise", exc |-> e, value |-> NoRec, status |-> 0,
                via |-> "arxiv"] : e \in ExceptionTypes}

Skipped == [kind |-> "skipped", exc |-> "none", value |-> NoRec, status |-> 0, via |-> "none"]

\* line 89: paper.get('source', 'unknown')
PaperSource(paper) == IF paper.source = NoSource THEN "unknown" ELSE paper.source

TaggedUnknown(info, paper) ==
    [title |-> info.title, arxiv_id |-> info.arxiv_id, pdf_url |-> info.pdf_url,
     source |-> "unknown"]

\* lines 89-90: info['source'] = ...; the dict that is appended
Tagged(info, paper) ==
    [title |-> info.title, arxiv_id |-> info.arxiv_id, pdf_url |-> info.pdf_url,
     source |-> PaperSource(paper)]

CatchesAllButRateLimit(exc) == exc \in ExceptionTypes \ {"RateLimitError"}

\* line 92: except Exception; RateLimitError(Exception), lines 19-25
DriverCatches(exc) == exc \in ExceptionTypes

BatchInit ==
    /\ CallIdle
    /\ sim = NoSim
    /\ pick = NoPick
    /\ conv = Parked /\ dblp = Parked /\ db = Parked
    /\ \E papers \in ListsUpTo(SampleRefs, MaxPapers) :
          batch = [state |-> "loop", papers |-> papers, i |-> 0, calls |-> <<>>,
                   outcomes |-> <<>>, results |-> <<>>, errors |-> <<>>,
                   exc |-> "none"]

\* lines 78-95: the loop body for the next paper
BatchIterate ==
    /\ batch.state = "loop"
    /\ batch.i < Len(batch.papers)
    /\ LET k == batch.i + 1
           paper == batch.papers[k]
       IN  IF Falsy(paper.title)
           THEN batch' = [batch EXCEPT !.i = k, !.outcomes = Append(@, Skipped)]
           ELSE \E out \in FetchOutcomes(paper.title, paper.url) :
                  LET called == [batch EXCEPT
                                   !.i = k,
                                   !.outcomes = Append(@, out),
                                   !.calls = Append(@, [at |-> k, title |-> paper.title,
                                                        url |-> paper.url])]
                  IN  IF out.kind = "raise"
                      THEN IF DriverCatches(out.exc)
                           THEN batch' = [called EXCEPT
                                            !.errors = Append(@, [title |-> paper.title,
                                                                  exc |-> out.exc])]
                           ELSE batch' = [called EXCEPT !.state = "raised",
                                                        !.exc = out.exc]
                      ELSE IF out.kind = "return"
                           THEN batch' = [called EXCEPT
                                            !.results = Append(@, Tagged(out.value, paper))]
                           ELSE batch' = called
    /\ UNCHANGED <<callVars, sim, pick, conv, dblp, db>>

\* lines 97-98: the loop is over and results is returned
BatchReturn ==
    /\ batch.state = "loop"
    /\ batch.i = Len(batch.papers)
    /\ batch' = [batch EXCEPT !.state = "returned"]
    /\ UNCHANGED <<callVars, sim, pick, conv, dblp, db>>

BatchNext == BatchIterate \/ BatchReturn

SpecBatch == BatchInit /\ [][BatchNext]_vars

Upto(n) == [k \in 1..n |-> k]

\* the positions, among the first n papers, of the papers that have a title
TitledUpto(n) == SelectSeq(Upto(n), LAMBDA k : Truthy(batch.papers[k].title))

\* the positions, among the first n papers, of the papers that were resolved to a record
SuccessfulUpto(n) == SelectSeq(Upto(n), LAMBDA k : batch.outcomes[k].kind = "return")

\* C11: at every point of a batch run that has handled the first i papers,
\* the calls of fetch_paper_info are exactly the papers with a title among
\* them, once each and in input order, with the paper's title and url; the
\* results are exactly the records of the papers that were resolved, in input
\* order, each with the source of its paper ('unknown' when the paper has
\* none); and the run returns only when every paper has been handled, so no
\* failure or not-found stops the papers after it.
C11_BatchCollectsInOrder ==
    batch.state \in {"loop", "returned"} =>
        /\ Len(batch.outcomes) = batch.i
        /\ batch.calls = [j \in 1..Len(TitledUpto(batch.i)) |->
                            [at |-> TitledUpto(batch.i)[j],
                             title |-> batch.papers[TitledUpto(batch.i)[j]].title,
                             url |-> batch.papers[TitledUpto(batch.i)[j]].url]]
        /\ batch.results = [j \in 1..Len(SuccessfulUpto(batch.i)) |->
                              [title |-> batch.outcomes[SuccessfulUpto(batch.i)[j]].value.title,
                               arxiv_id |-> batch.outcomes[SuccessfulUpto(batch.i)[j]].value.arxiv_id,
                               pdf_url |-> batch.outcomes[SuccessfulUpto(batch.i)[j]].value.pdf_url,
                               source |-> IF batch.papers[SuccessfulUpto(batch.i)[j]].source = NoSource
                                          THEN "unknown"
                                          ELSE batch.papers[SuccessfulUpto(batch.i)[j]].source]]
        /\ batch.state = "returned" => batch.i = Len(batch.papers)

\* a returned batch of three papers: the first raised, the second had no
\* title, the third was resolved and carries its own source
C11_Witness ==
    /\ batch.state = "returned"
    /\ Len(batch.papers) = 3
    /\ batch.outcomes[1].kind = "raise"
    /\ batch.outcomes[2].kind = "skipped"
    /\ batch.outcomes[3].kind = "return"
    /\ Len(batch.results) = 1
    /\ batch.results[1].source = "iclr"

RateLimited(out) == out.kind = "raise" /\ out.exc = "RateLimitError"

\* C14: no batch run ends with an exception; when fetch_paper_info raised
\* RateLimitError for a paper, the error is logged with the paper's title,
\* the paper adds nothing to the results, and fetch_paper_info is called for
\* every later paper with a title that the run goes on to handle, which in a
\* returned run is every later paper; the run ends by returning.
C14_RateLimitSwallowed ==
    /\ batch.state # "raised"
    /\ \A k \in 1..batch.i :
          RateLimited(batch.outcomes[k]) =>
             /\ \E e \in 1..Len(batch.errors) :
                   batch.errors[e] = [title |-> batch.papers[k].title,
                                      exc |-> "RateLimitError"]
             /\ Len(batch.results) = Len(SuccessfulUpto(batch.i))
             /\ \A j \in (k + 1)..batch.i :
                   Truthy(batch.papers[j].title) =>
                      \E c \in 1..Len(batch.calls) : batch.calls[c].at = j
             /\ batch.state = "returned" => batch.i = Len(batch.papers)

\* a returned batch whose first paper was rate limited and whose last paper
\* was then resolved
C14_Witness ==
    /\ batch.state = "returned"
    /\ Len(batch.papers) = 3
    /\ RateLimited(batch.outcomes[1])
    /\ batch.outcomes[3].kind = "return"
    /\ Len(batch.calls) >= 2
    /\ Len(batch.results) >= 1

-----------------------------------------------------------------------------
(* _search_openalex, lines 326-386: the conversion of one work object       *)

MaxLocations == 2

LocationSources == {NoneV, NullName, <<"arXiv">>, <<"Nature">>}

LocationPdfUrls ==
    { NoneV,
      <<"https://", "arxiv.org/", "pdf/", "1", ".", "2">>,
      <<"https://", "arxiv.org/", "2", ".", "1", "v", "1">>,
      <<"https://", "arxiv.org/", "abs/", ".pdf">>,
      DoiUrl }

SampleLocations == [source : LocationSources, pdf_url : LocationPdfUrls]

IdsArxiv == {NoneV, <<"https://", "arxiv.org/", "abs/", "2", ".", "2">>,
             <<"https://", "arxiv.org/", "abs/">>}

PrimaryPdfs == {NoneV, <<>>, SomePdfUrl}

Works ==
    [display_name : {<<"a", "b">>},
     locations : ListsUpTo(SampleLocations, MaxLocations),
     ids_arxiv : IdsArxiv,
     primary_pdf : PrimaryPdfs]

WorkInit ==
    /\ CallIdle
    /\ sim = NoSim
    /\ pick = NoPick
    /\ batch = Parked /\ dblp = Parked /\ db = Parked
    /\ \E w \in Works :
          conv = [state |-> "given", work |-> w, raised |-> FALSE, cand |-> NoRec]

\* lines 327-386: one pass of the loop over works
ConvertWork ==
    /\ conv.state = "given"
    /\ conv' = [conv EXCEPT
                  !.state = "done",
                  !.raised = LocationsRaise(conv.work.locations),
                  !.cand = IF LocationsRaise(conv.work.locations) THEN NoRec
                           ELSE WorkCandidate(conv.work)]
    /\ UNCHANGED <<callVars, sim, pick, batch, dblp, db>>

WorkNext == ConvertWork

SpecWork == WorkInit /\ [][WorkNext]_vars

\* the locations whose source is named like arXiv and whose pdf_url holds an
\* arXiv identifier
ArxivLocations(w) ==
    {k \in 1..Len(w.locations) :
        /\ w.locations[k].source \notin {NoneV, NullName}
        /\ \E i \in 1..Len(w.locations[k].source) :
              w.locations[k].source[i] \in {"arxiv", "arXiv", "ArXiv"}
        /\ w.locations[k].pdf_url # NoneV
        /\ SearchHostId(w.locations[k].pdf_url) # NoneV}

C12_ExpectedId(w) ==
    IF ArxivLocations(w) # {}
    THEN SearchHostId(w.locations[SetMin(ArxivLocations(w))].pdf_url)
    ELSE IF w.ids_arxiv # NoneV /\ SearchHostId(w.ids_arxiv) # NoneV
         THEN SearchHostId(w.ids_arxiv)
         ELSE NoneV

-----------------------------------------------------------------------------
(* The requests of one _search_arxiv call, read from log and replies         *)

ArxivCalled == arxiv_results.kind # "not_called"

\* the request got a response and raise_for_status let it through
Completed(r) == r.kind = "http" /\ r.status < 400

CountOf(tag) == Cardinality({i \in DOMAIN log : log[i] = tag})

\* C13: the first request of _search_arxiv is the exact-phrase one; the
\* keyword request is the second and last arXiv request, and it is made
\* exactly when the exact-phrase request completed and gave no candidate;
\* candidates of the exact-phrase request are what the adapter returns.
C13_ExactThenKeyword ==
    /\ pc \in {"arxiv_keyword", "openalex"} => log # <<>>
    /\ log # <<>> => log[1] = "arxiv_ti"
    /\ CountOf("arxiv_ti") <= 1 /\ CountOf("arxiv_all") <= 1
    /\ \A i \in DOMAIN log : log[i] = "arxiv_all" => i = 2
    /\ pc = "arxiv_keyword" =>
          (Completed(replies[1]) /\ ParseArxivResponse(replies[1]) = <<>>)
    /\ ArxivCalled =>
          /\ Queried("arxiv_all") <=>
                (Completed(replies[1]) /\ ParseArxivResponse(replies[1]) = <<>>)
          /\ (Completed(replies[1]) /\ ParseArxivResponse(replies[1]) # <<>>) =>
                arxiv_results = Listed(ParseArxivResponse(replies[1]))

\* the exact-phrase request completed with an empty feed, the keyword request
\* followed and its candidates are the adapter's result
C13_Witness ==
    /\ ArxivCalled
    /\ Len(log) >= 2
    /\ log[1] = "arxiv_ti" /\ log[2] = "arxiv_all"
    /\ replies[1] = Ok(<<>>)
    /\ Completed(replies[2])
    /\ arxiv_results.kind = "list"
    /\ arxiv_results.cands # <<>>

-----------------------------------------------------------------------------
(* collectors/dblp.py: fetch_dblp_papers, one step per page request.  A raw *)
(* title is a sequence of characters and whole HTML tags.  A page is what   *)
(* the server answers: the hits it lists and the @total it reports.         *)

MaxHits == 2

PageSize == 1000

DefaultMaxRows == 5000

MaxRowsChoices == {PageSize, DefaultMaxRows}

Totals == {0, 1, 1500}

HtmlTags == {"<i>", "</i>"}

\* _clean_dblp_title, lines 158-166
CleanDblpTitle(raw) ==
    IF Falsy(raw) THEN <<>>
    ELSE JoinSp(SplitWs([i \in 1..Len(raw) |->
                            IF raw[i] \in HtmlTags THEN " " ELSE raw[i]],
                        <<>>, <<>>))

EeUrl == <<"https://", "doi.org/", "1">>

RecUrl == <<"https://", "dblp.org/", "2">>

\* hit entries: bad is an entry that is not an object (entry.get raises)
SampleHits ==
    { [bad |-> FALSE, title |-> <<"a">>, ee |-> EeUrl, url |-> RecUrl],
      [bad |-> FALSE, title |-> <<"<i>", "A", "</i>">>, ee |-> NoneV, url |-> RecUrl],
      [bad |-> FALSE, title |-> <<"b", " ", " ", "a">>, ee |-> NoneV, url |-> NoneV],
      [bad |-> FALSE, title |-> <<"<i>", " ">>, ee |-> EeUrl, url |-> NoneV],
      [bad |-> TRUE, title |-> NoneV, ee |-> NoneV, url |-> NoneV] }

DblpFailures ==
    {[kind |-> k, total |-> 0, hit |-> <<>>, single |-> FALSE] :
        k \in {"http_error", "conn_error", "bad_json", "bad_total"}}

\* single: "hit" is one object instead of a list (lines 60-61)
DblpPages ==
    DblpFailures
    \cup {[kind |-> "ok", total |-> t, hit |-> h, single |-> FALSE] :
             t \in Totals, h \in ListsUpTo(SampleHits, MaxHits)}
    \cup {[kind |-> "ok", total |-> t, hit |-> <<h>>, single |-> TRUE] :
             t \in Totals, h \in SampleHits}

SourceLabel == "ICML"

\* line 71: info.get("ee") or info.get("url") or ""
HitUrl(hit) == IF Truthy(hit.ee) THEN hit.ee ELSE IF Truthy(hit.url) THEN hit.url ELSE <<>>

\* lines 63-78: the papers after the entries up to the first bad one
RECURSIVE AppendHits(_, _)
AppendHits(papers, hits) ==
    IF hits = <<>> \/ Head(hits).bad THEN papers
    ELSE IF CleanDblpTitle(Head(hits).title) = <<>> THEN AppendHits(papers, Tail(hits))
    ELSE AppendHits(Append(papers, [title |-> CleanDblpTitle(Head(hits).title),
                                    url |-> HitUrl(Head(hits)),
                                    source |-> SourceLabel]),
                    Tail(hits))

HasBadHit(hits) == \E i \in 1..Len(hits) : hits[i].bad

\* _deduplicate, lines 169-181
RECURSIVE Deduplicate(_, _, _)
Deduplicate(papers, seen, unique) ==
    IF papers = <<>> THEN unique
    ELSE IF LowerAll(Head(papers).title) \in seen
         THEN Deduplicate(Tail(papers), seen, unique)
         ELSE Deduplicate(Tail(papers), seen \cup {LowerAll(Head(papers).title)},
                          Append(unique, Head(papers)))

\* the except clause that ends the call, lines 95-100; json() raises a
\* RequestException or a plain ValueError depending on the requests release
Handlers(page) ==
    IF page.kind \in {"http_error", "conn_error"} THEN {"request"}
    ELSE IF page.kind = "bad_json" THEN {"request", "unexpected"}
    ELSE {"unexpected"}

Min(a, b) == IF a <= b THEN a ELSE b

DblpInit ==
    /\ CallIdle
    /\ sim = NoSim
    /\ pick = NoPick
    /\ batch = Parked /\ conv = Parked /\ db = Parked
    /\ \E max_rows \in MaxRowsChoices :
          dblp = [state |-> "paging", max_rows |-> max_rows, offset |-> 0,
                  papers |-> <<>>, requests |-> <<>>, pages |-> <<>>,
                  how |-> "none", value |-> <<>>]

\* lines 41-100: one pass of the while loop, and the return when it is the last
DblpPage ==
    /\ dblp.state = "paging"
    /\ dblp.offset < dblp.max_rows
    /\ \E page \in DblpPages :
          LET asked == [dblp EXCEPT
                          !.requests = Append(@, [h |-> Min(PageSize, dblp.max_rows - dblp.offset),
                                                  f |-> dblp.offset]),
                          !.pages = Append(@, page)]
              papers == AppendHits(dblp.papers, page.hit)
              offset == dblp.offset + PageSize
          IN  IF page.kind # "ok"
              THEN \E how \in Handlers(page) :
                      dblp' = [asked EXCEPT !.state = "returned", !.how = how,
                                            !.value = dblp.papers]
              ELSE IF page.hit = <<>>
              THEN dblp' = [asked EXCEPT !.state = "returned", !.how = "deduplicate",
                                         !.value = Deduplicate(dblp.papers, {}, <<>>)]
              ELSE IF HasBadHit(page.hit)
              THEN dblp' = [asked EXCEPT !.state = "returned", !.how = "unexpected",
                                         !.papers = papers, !.value = papers]
              ELSE IF offset >= page.total \/ ~(offset < dblp.max_rows)
              THEN dblp' = [asked EXCEPT !.state = "returned", !.how = "deduplicate",
                                         !.papers = papers, !.offset = offset,
                                         !.value = Deduplicate(papers, {}, <<>>)]
              ELSE dblp' = [asked EXCEPT !.papers = papers, !.offset = offset]
    /\ UNCHANGED <<callVars, sim, pick, batch, conv, db>>

DblpNext == DblpPage

SpecDblp == DblpInit /\ [][DblpNext]_vars

SameIgnoringCase(t1, t2) ==
    /\ Len(t1) = Len(t2)
    /\ \A i \in 1..Len(t1) :
          t1[i] = t2[i] \/ {t1[i], t2[i]} \in {{"a", "A"}, {"b", "B"}}

\* the papers fetched whose title no earlier fetched paper has, ignoring case
FirstOccurrences(papers) ==
    LET keep == SelectSeq(Upto(Len(papers)),
                          LAMBDA k : \A j \in 1..(k - 1) :
                                        ~SameIgnoringCase(papers[j].title, papers[k].title))
    IN  [n \in 1..Len(keep) |-> papers[keep[n]]]

\* C15: the list fetch_dblp_papers returns has no two entries whose titles
\* are equal ignoring case, and it is the first occurrence of each title in
\* fetch order, also when a request failure or an unexpected error ended the
\* paging.
C15_ReturnedWithoutDuplicates ==
    dblp.state = "returned" =>
        /\ \A i, j \in 1..Len(dblp.value) :
              i # j => ~SameIgnoringCase(dblp.value[i].title, dblp.value[j].title)
        /\ dblp.value = FirstOccurrences(dblp.papers)

\* what does hold: a return through line 93 is without duplicates
C15_DeduplicatedOnNormalReturn ==
    (dblp.state = "returned" /\ dblp.how = "deduplicate") =>
        /\ \A i, j \in 1..Len(dblp.value) :
              i # j => ~SameIgnoringCase(dblp.value[i].title, dblp.value[j].title)
        /\ dblp.value = FirstOccurrences(dblp.papers)

-----------------------------------------------------------------------------
(* scripts/deduplicate_titles.py.  The papers table is a function from the  *)
(* ids of its rows to the columns the script reads; ids are unique and the  *)
(* titles and created_at values are not NULL.  arxiv_id is NULL (NoneV),    *)
(* the empty string or an identifier.  view is the table as the script's    *)
(* connection sees it, table the committed one.                             *)

MaxTableRows == 3

PaperTitles == {"t", "u"}

ArxivIdCells == {NoneV, <<>>, <<"1", ".", "2">>}

CreatedAts == {1, 2}

RowValues == [title : PaperTitles, arxiv_id : ArxivIdCells, created_at : CreatedAts]

Tables == UNION {[1..n -> RowValues] : n \in 0..MaxTableRows}

RowsTitled(t, x) == {i \in DOMAIN t : t[i].title = x}

\* lines 38-46: GROUP BY title HAVING cnt > 1
DupTitles(t) == {x \in PaperTitles : Cardinality(RowsTitled(t, x)) > 1}

\* ORDER BY cnt DESC; titles of equal count come in any order
DupOrders(t) ==
    {s \in ListsOfLen(DupTitles(t), Cardinality(DupTitles(t))) :
        /\ \A i, j \in 1..Len(s) : i # j => s[i] # s[j]
        /\ \A i, j \in 1..Len(s) :
              i < j => Cardinality(RowsTitled(t, s[i])) >= Cardinality(RowsTitled(t, s[j]))}

\* (arxiv_id IS NOT NULL): 1 or 0
IsNotNull(cell) == IF cell # NoneV THEN 1 ELSE 0

\* line 67: row a sorts strictly before row b
SortsBefore(a, b) ==
    \/ IsNotNull(a.arxiv_id) > IsNotNull(b.arxiv_id)
    \/ IsNotNull(a.arxiv_id) = IsNotNull(b.arxiv_id) /\ a.created_at < b.created_at

\* the rows that can be records[0]; rows that tie come in any order
FirstRecords(t, ids) == {i \in ids : \A j \in ids : ~SortsBefore(t[j], t[i])}

\* line 93: DELETE FROM papers WHERE id = ? for every id in del
DeleteRows(t, del) == [i \in (DOMAIN t \ del) |-> t[i]]

DedupInit ==
    /\ CallIdle
    /\ sim = NoSim
    /\ pick = NoPick
    /\ batch = Parked /\ conv = Parked /\ dblp = Parked
    /\ \E t \in Tables, apply \in BOOLEAN :
          db = [state |-> "start", apply |-> apply, table0 |-> t, table |-> t,
                view |-> t, dups |-> <<>>, kept |-> {}, total_deleted |-> 0]

\* lines 38-55: the duplicated titles; lines 48-51 when there are none
DedupStart ==
    /\ db.state = "start"
    /\ \E s \in DupOrders(db.view) :
          db' = [db EXCEPT !.state = IF s = <<>> THEN "done" ELSE "deleting",
                           !.dups = s]
    /\ UNCHANGED <<callVars, sim, pick, batch, conv, dblp>>

\* lines 57-94: one pass of the loop over the duplicated titles
DedupTitle ==
    /\ db.state = "deleting"
    /\ db.dups # <<>>
    /\ LET ids == RowsTitled(db.view, Head(db.dups))
       IN  IF Cardinality(ids) <= 1
           THEN db' = [db EXCEPT !.dups = Tail(@)]
           ELSE \E keep \in FirstRecords(db.view, ids) :
                   db' = [db EXCEPT
                            !.dups = Tail(@),
                            !.kept = @ \cup {keep},
                            !.view = IF db.apply THEN DeleteRows(@, ids \ {keep}) ELSE @,
                            !.total_deleted = IF db.apply
                                              THEN @ + Cardinality(ids \ {keep}) ELSE @]
    /\ UNCHANGED <<callVars, sim, pick, batch, conv, dblp>>

\* lines 96-107: commit when rows were deleted, then close
DedupFinish ==
    /\ db.state = "deleting"
    /\ db.dups = <<>>
    /\ db' = [db EXCEPT !.state = "done",
                        !.table = IF db.apply /\ db.total_deleted > 0 THEN db.view ELSE @]
    /\ UNCHANGED <<callVars, sim, pick, batch, conv, dblp>>

DedupNext == DedupStart \/ DedupTitle \/ DedupFinish

SpecDedup == DedupInit /\ [][DedupNext]_vars

NonEmpty(cell) == cell \notin {NoneV, <<>>}

\* C16: after a run with apply, every title of the table is the title of
\* exactly one row; the row that is left was in the table; its arxiv_id is
\* not empty when a row of its title had a non-empty arxiv_id; its
\* created_at is the earliest among the rows of its title that are like it
\* in that respect; and the rows of titles that were not duplicated are as
\* they were.
C16_OneRowPerTitle ==
    (db.state = "done" /\ db.apply) =>
        \A x \in PaperTitles :
           RowsTitled(db.table0, x) # {} =>
              /\ Cardinality(RowsTitled(db.table, x)) = 1
              /\ \A i \in RowsTitled(db.table, x) :
                    /\ i \in DOMAIN db.table0 /\ db.table[i] = db.table0[i]
                    /\ (\E j \in RowsTitled(db.table0, x) : NonEmpty(db.table0[j].arxiv_id))
                          => NonEmpty(db.table[i].arxiv_id)
                    /\ \A j \in RowsTitled(db.table0, x) :
                          NonEmpty(db.table0[j].arxiv_id) = NonEmpty(db.table[i].arxiv_id)
                             => db.table[i].created_at <= db.table0[j].created_at
              /\ Cardinality(RowsTitled(db.table0, x)) = 1 =>
                    RowsTitled(db.table, x) = RowsTitled(db.table0, x)

\* what does hold: the same with "not NULL" in the place of "not empty"
C16_OneRowPerTitleNotNull ==
    (db.state = "done" /\ db.apply) =>
        \A x \in PaperTitles :
           RowsTitled(db.table0, x) # {} =>
              /\ Cardinality(RowsTitled(db.table, x)) = 1
              /\ \A i \in RowsTitled(db.table, x) :
                    /\ i \in DOMAIN db.table0 /\ db.table[i] = db.table0[i]
                    /\ (\E j \in RowsTitled(db.table0, x) : db.table0[j].arxiv_id # NoneV)
                          => db.table[i].arxiv_id # NoneV
                    /\ \A j \in RowsTitled(db.table0, x) :
                          (db.table0[j].arxiv_id = NoneV) = (db.table[i].arxiv_id = NoneV)
                             => db.table[i].created_at <= db.table0[j].created_at
              /\ Cardinality(RowsTitled(db.table0, x)) = 1 =>
                    RowsTitled(db.table, x) = RowsTitled(db.table0, x)

====
